---------------------------- MODULE Spec2Model ----------------------------
(***************************************************************************)
(* ArionVoicer: the recognition-cycle controller of main_skilletz.py       *)
(* (VoiceRecognitionApp.run), its vocabulary files and update_grammar.     *)
(*                                                                         *)
(* The program is a Streamlit script.  Every user interaction re-executes  *)
(* the script from its first line: a new VoiceRecognitionApp is built      *)
(* (__init__ reloads the three name files) and run() is called.  Only      *)
(* st.session_state and the values of the widgets survive between two      *)
(* executions.  A button returns True in the one execution caused by a     *)
(* click on it, and only to the st.button call that carries the key of the *)
(* clicked button.                                                         *)
(*                                                                         *)
(* Text is modelled as a sequence of one-character strings, so that        *)
(* strip, lower, split and splitlines are computed as Python computes      *)
(* them.                                                                   *)
(*                                                                         *)
(* Four specifications share the initial state:                            *)
(*   Spec       the controller driven by the user, files and device sound; *)
(*   FaultSpec  Spec with failures of the capture device and of the files; *)
(*   AudioSpec  one call of recognize_speech after another, the loop and   *)
(*              the capture callback as separate threads;                  *)
(*   UpdSpec    update_grammar, statement by statement, in two sessions.   *)
(***************************************************************************)
EXTENDS Integers, Sequences, FiniteSets, TLC

----------------------------------------------------------------------------
(* Text *)

NL == "\n"
QUOTE == "\""

\* Characters Python's str.strip() and str.split() treat as whitespace.
Whitespace == {" ", NL}

\* str.lower() on one character (the upper-case letters of the alphabet used).
LowerChar(c) ==
  CASE c = "A" -> "a"
    [] c = "G" -> "g"
    [] c = "L" -> "l"
    [] OTHER -> c

\* str.lower()
lower(s) == [i \in 1..Len(s) |-> LowerChar(s[i])]

RECURSIVE lstrip(_)
lstrip(s) ==
  IF s # <<>> /\ Head(s) \in Whitespace THEN lstrip(Tail(s)) ELSE s

RECURSIVE rstrip(_)
rstrip(s) ==
  IF s # <<>> /\ s[Len(s)] \in Whitespace
    THEN rstrip(SubSeq(s, 1, Len(s) - 1))
    ELSE s

\* str.strip()
strip(s) == rstrip(lstrip(s))

\* str.splitlines(): a line ends at each line break; a line break at the very
\* end of the text does not open a further, empty line.
RECURSIVE SplitLinesFrom(_, _, _)
SplitLinesFrom(s, cur, acc) ==
  IF s = <<>>
    THEN IF cur = <<>> THEN acc ELSE Append(acc, cur)
    ELSE IF Head(s) = NL
      THEN SplitLinesFrom(Tail(s), <<>>, Append(acc, cur))
      ELSE SplitLinesFrom(Tail(s), Append(cur, Head(s)), acc)

splitlines(s) == SplitLinesFrom(s, <<>>, <<>>)

\* str.split() with no argument: the maximal runs of non-whitespace.
RECURSIVE SplitFrom(_, _, _)
SplitFrom(s, cur, acc) ==
  IF s = <<>>
    THEN IF cur = <<>> THEN acc ELSE Append(acc, cur)
    ELSE IF Head(s) \in Whitespace
      THEN SplitFrom(Tail(s), <<>>, IF cur = <<>> THEN acc ELSE Append(acc, cur))
      ELSE SplitFrom(Tail(s), Append(cur, Head(s)), acc)

split(s) == SplitFrom(s, <<>>, <<>>)

\* ", ".join(...) / " ".join(...)
RECURSIVE join(_, _)
join(sep, ws) ==
  IF ws = <<>> THEN <<>>
  ELSE IF Len(ws) = 1 THEN ws[1]
  ELSE ws[1] \o sep \o join(sep, Tail(ws))

\* json.dumps of a list of strings: ["w1", "w2"].  The alphabet holds no
\* character that JSON escapes.
json_dumps(ws) ==
  <<"[">> \o join(<<",", " ">>, [i \in 1..Len(ws) |-> <<QUOTE>> \o ws[i] \o <<QUOTE>>])
          \o <<"]">>

\* The strings of a JSON array of strings, in order (what the recognizer
\* reads out of the grammar it is handed).
RECURSIVE JsonItemsFrom(_, _, _, _)
JsonItemsFrom(s, inq, cur, acc) ==
  IF s = <<>> THEN acc
  ELSE IF Head(s) = QUOTE
    THEN IF inq THEN JsonItemsFrom(Tail(s), FALSE, <<>>, Append(acc, cur))
                ELSE JsonItemsFrom(Tail(s), TRUE, <<>>, acc)
    ELSE IF inq THEN JsonItemsFrom(Tail(s), TRUE, Append(cur, Head(s)), acc)
                ELSE JsonItemsFrom(Tail(s), FALSE, cur, acc)

json_loads(s) == JsonItemsFrom(s, FALSE, <<>>, <<>>)

Range(f) == {f[i] : i \in DOMAIN f}

----------------------------------------------------------------------------
(* Names, transcripts and file contents used as inputs *)

garcia == <<"g", "a", "r", "c", "i", "a">>
Garcia == <<"G", "a", "r", "c", "i", "a">>
lopez == <<"l", "o", "p", "e", "z">>
Lopez == <<"L", "o", "p", "e", "z">>
ana == <<"a", "n", "a">>
ana_garcia == ana \o <<" ">> \o garcia
blank == <<" ">>
empty == <<>>
silva == <<"s", "i", "l", "v", "a">>
rossi == <<"r", "o", "s", "s", "i">>


\* What the user can type into "Enter the correct last name (SMS):".
ManualTexts == {empty, blank, Lopez}

\* What a decode pass can return (result.get("text", "")).
Transcripts == {empty, ana_garcia}

\* Contents of models/es_names.txt when the session starts: the two-name
\* list, a list with lines that differ only in case, a list that ends with a
\* line break, a list with a padded line.
InitFiles ==
  { garcia \o <<NL>> \o lopez,
    garcia \o <<NL>> \o Garcia,
    garcia \o <<NL>>,
    <<" ">> \o lopez }

----------------------------------------------------------------------------
(* Configuration *)

Languages == <<"es-ES", "pt-BR", "it-IT">>

recognition_cycles ==
  << [sample_rate |-> 16000, block_size |-> 2048],
     [sample_rate |-> 32000, block_size |-> 4096],
     [sample_rate |-> 44100, block_size |-> 8192] >>

es_file == "models/es_names.txt"
it_file == "models/it_names.txt"
br_file == "models/br_names.txt"
GrammarFiles == {es_file, it_file, br_file}

es_model == "models/es-ES"
br_model == "models/pt-BR"
it_model == "models/it-IT"

\* The longest run of 'No, try again' answers the scenario counter follows.
MaxRejections == 5

\* The number of names one session appends to the name files.
MaxAppends == 1

----------------------------------------------------------------------------
(* State *)

VARIABLES
  current_cycle,        \* st.session_state.current_cycle
  recognition_active,   \* st.session_state.recognition_active
  show_manual_input,    \* st.session_state.show_manual_input
  language_choice,      \* the selectbox value = self.language_choice
  files,                \* contents of the three name files
  model,                \* self.model
  names,                \* self.es_names / self.br_names / self.it_names, by file
  grammar,              \* self.grammar
  pc,                   \* "waiting" for the user, or "listening" in recognize_speech
  ans,                  \* answer button that is True in the running script
  page,                 \* the widgets the browser shows
  input,                \* the user's last action
  log,                  \* calls made by the script executions it caused
  rejections,           \* 'No, try again' answers since Start, nothing else between
  passes,               \* recognize_speech calls in that same stretch
  appends,              \* names appended to the name files so far
  written,              \* what update_grammar wrote, and under which language
  \* one call of recognize_speech and the capture callback of its stream
  q,                    \* queue.Queue(maxsize=1)
  stream,               \* capture streams that are open
  rs_pc,                \* where recognize_speech stands
  data,                 \* the frame q.get() returned
  cb_pc,                \* where the capture callback stands
  indata,               \* the frame the callback was called with
  produced,             \* frames the callback was called with, in order
  fed,                  \* frames handed to AcceptWaveform, in order
  result,               \* how the with block is being left
  outcome,              \* how the last call of recognize_speech ended
  attempts,             \* calls of recognize_speech so far
  \* update_grammar running in several browser sessions
  sessions              \* per session: position, arguments, existing_words

app_vars == << current_cycle, recognition_active, show_manual_input, language_choice,
               files, model, names, grammar, pc, ans, page, input, log,
               rejections, passes, appends, written >>

audio_vars == << q, stream, rs_pc, data, cb_pc, indata, produced, fed, result,
                 outcome, attempts >>

vars == << app_vars, audio_vars, sessions >>

\* Browser sessions that submit a name at the same time.
Sessions == {1, 2}

Idle == ~recognition_active /\ ~show_manual_input /\ current_cycle = 0
ManualFallback == show_manual_input /\ ~recognition_active

----------------------------------------------------------------------------
(* VoiceRecognitionApp *)

\* load_grammar: the lines of the file, as a JSON array.
load_grammar(content) == json_dumps(splitlines(content))

\* __init__: the three name lists are read again by every script execution.
LoadedNames == [f \in GrammarFiles |-> load_grammar(files[f])]

\* The file update_grammar picks for self.language_choice.
GrammarFileOf(l) ==
  IF l = "es-ES" THEN es_file
  ELSE IF l = "it-IT" THEN it_file
  ELSE br_file

\* The test update_grammar makes before it appends.
AlreadyPresent(new_text, content) ==
  lower(strip(new_text)) \in {lower(w) : w \in Range(splitlines(content))}

\* update_grammar(new_text) under language l: the files and self.grammar it
\* leaves, and its return value.
update_grammar(new_text, l, fs, g) ==
  LET f == GrammarFileOf(l)
      appended == fs[f] \o <<NL>> \o strip(new_text)
  IN  IF ~AlreadyPresent(new_text, fs[f])
        THEN [files |-> [fs EXCEPT ![f] = appended],
              grammar |-> load_grammar(appended),
              ret |-> TRUE]
        ELSE [files |-> fs, grammar |-> g, ret |-> TRUE]

SelectModel_keeps_grammar(l, m, g, nm) ==
  IF l = "pt-BR" /\ m # br_model THEN [model |-> br_model, grammar |-> g]
  ELSE IF l = "es-ES" /\ m # es_model THEN [model |-> es_model, grammar |-> g]
  ELSE IF l = "it-IT" /\ m # it_model THEN [model |-> it_model, grammar |-> g]
  ELSE [model |-> m, grammar |-> g]

\* run(), lines 247-255: self.model and self.grammar after the language test,
\* for an app whose model is m and grammar g.
SelectModel(l, m, g, nm) ==
  IF l = "pt-BR" /\ m # br_model THEN [model |-> br_model, grammar |-> nm[br_file]]
  ELSE IF l = "es-ES" /\ m # es_model THEN [model |-> es_model, grammar |-> nm[es_file]]
  ELSE IF l = "it-IT" /\ m # it_model THEN [model |-> it_model, grammar |-> nm[it_file]]
  ELSE [model |-> m, grammar |-> g]

\* __init__ followed by the language test of run().
FreshApp(l) == SelectModel(l, es_model, LoadedNames[es_file], LoadedNames)

\* last_name: the last word of the transcript, or the transcript itself.
last_name(recognized_text) ==
  LET words == split(recognized_text)
  IN  IF Len(words) >= 1 THEN join(<<" ">>, <<words[Len(words)]>>) ELSE recognized_text

SessionNow ==
  [current_cycle |-> current_cycle, recognition_active |-> recognition_active,
   show_manual_input |-> show_manual_input]

reset_session_keeps_cycle ==
  [current_cycle |-> current_cycle, recognition_active |-> FALSE,
   show_manual_input |-> FALSE]

\* reset_session leaves these values in st.session_state (language_choice is
\* put back as it was).
reset_session ==
  [current_cycle |-> 0, recognition_active |-> FALSE, show_manual_input |-> FALSE]

start_session_keeps_manual ==
  [current_cycle |-> 0, recognition_active |-> TRUE,
   show_manual_input |-> show_manual_input]

\* Lines 272-275: the session after a Start that was taken.
start_session ==
  [current_cycle |-> 0, recognition_active |-> TRUE, show_manual_input |-> FALSE]

\* st.button(label, key=...): True for the button that was clicked, which is
\* the one drawn under the same label and key.
st_button(clicked, clicked_key, label, key) ==
  clicked = label /\ clicked_key = key

submit_taken_never(submit_button, manual_text) == FALSE

\* Line 290: if submit_button and manual_text
submit_taken(submit_button, manual_text) ==
  submit_button /\ manual_text # empty

no_try_again_past_last(s, cycle) ==
  IF cycle = Len(recognition_cycles)
    THEN [s EXCEPT !.show_manual_input = TRUE, !.recognition_active = FALSE]
    ELSE [s EXCEPT !.current_cycle = s.current_cycle + 1]

\* Lines 342-348: the session s after 'No, try again' on the result of cycle.
no_try_again(s, cycle) ==
  IF cycle = Len(recognition_cycles) - 1
    THEN [s EXCEPT !.show_manual_input = TRUE, !.recognition_active = FALSE]
    ELSE [s EXCEPT !.current_cycle = s.current_cycle + 1]

\* Entries of log: a call, with what it was given.
Call(ev, a, b) == [ev |-> ev, a |-> a, b |-> b]

Calls(name) == {i \in DOMAIN log : log[i].ev = name}

\* Where the controller stands.
ControllerState ==
  IF pc = "listening" THEN "Listening"
  ELSE IF show_manual_input THEN "ManualFallback"
  ELSE IF recognition_active THEN "AwaitingConfirmation"
  ELSE "Idle"

\* The user's action: the widget used, the tier in the key of the clicked
\* button, the content of the text box, and what the controller and the page
\* showed at that moment.
Input(kind, key, text) ==
  [kind |-> kind, key |-> key, text |-> text,
   at |-> ControllerState, cycle |-> current_cycle, shown |-> page.text]

\* What line 190 writes after the line break, and the language it was
\* written under.
Written(l, new_text) == [language |-> l, name |-> strip(new_text)]

----------------------------------------------------------------------------
(* One execution of the script, up to recognize_speech or to its end *)

\* 'No, try again' answers given one per presented result since a Start from
\* Idle, with no other action between (-1: no such stretch).  An accept that
\* ends the stretch keeps the count until the next action.
Tracked(kind) ==
  IF kind = "start" /\ ControllerState = "Idle" THEN 0
  ELSE IF kind = "retry" /\ pc = "waiting" /\ input.kind \in {"start", "retry"}
          /\ rejections >= 0 /\ rejections < MaxRejections
    THEN rejections + 1
  ELSE IF kind = "confirm" /\ pc = "waiting" /\ input.kind \in {"start", "retry"}
    THEN rejections
  ELSE -1

\* The script executions caused by one user action: kind names the widget
\* used, key the tier in the key of the clicked button, text the content of
\* the text box, l the language selected.  A Start that is taken calls
\* st.rerun(), and the script runs again with no button set.
Script(kind, key, text, l) ==
  LET start_recognition == st_button(kind, key, "start", current_cycle)
      reset_recognition == st_button(kind, 0, "reset", 0)
      s1 == IF reset_recognition THEN reset_session ELSE SessionNow
      s2 == IF start_recognition THEN start_session ELSE s1
      log1 == (IF reset_recognition THEN <<Call("reset_session", 0, 0)>> ELSE <<>>)
              \o (IF start_recognition THEN <<Call("st.rerun", 0, 0)>> ELSE <<>>)
      \* key of the Start button drawn by the last execution (line 266)
      start_key == IF start_recognition THEN 0 ELSE current_cycle
      fresh == FreshApp(l)
      tracked == Tracked(kind)
      before == IF tracked <= 0 THEN 0 ELSE passes
  IN  /\ language_choice' = l
      /\ names' = LoadedNames
      /\ model' = fresh.model
      /\ input' = Input(kind, key, text)
      /\ rejections' = tracked
      /\ IF s2.show_manual_input
           THEN \* lines 278-298: the manual form
                LET submit_button == st_button(kind, 0, "submit", 0)
                    taken == submit_taken(submit_button, text)
                    upd == update_grammar(text, l, files, fresh.grammar)
                    s3 == IF taken THEN reset_session ELSE s2
                IN  /\ files' = IF taken THEN upd.files ELSE files
                    /\ appends' = IF taken /\ upd.files # files
                                    THEN appends + 1 ELSE appends
                    /\ written' = IF taken /\ upd.files # files
                                    THEN written \cup {Written(l, text)}
                                    ELSE written
                    /\ grammar' = IF taken THEN upd.grammar ELSE fresh.grammar
                    /\ current_cycle' = s3.current_cycle
                    /\ recognition_active' = s3.recognition_active
                    /\ show_manual_input' = s3.show_manual_input
                    /\ log' = log1 \o (IF taken
                                         THEN <<Call("update_grammar", text, l),
                                                Call("reset_session", 0, 0)>>
                                         ELSE <<>>)
                    /\ page' = [start |-> start_key, lower |-> "form", tier |-> 0,
                                text |-> empty]
                    /\ pc' = "waiting"
                    /\ ans' = "none"
                    /\ passes' = before
           ELSE IF s2.recognition_active /\ s2.current_cycle < Len(recognition_cycles)
           THEN \* lines 300-319: recognize_speech is entered
                /\ files' = files
                /\ appends' = appends
                /\ written' = written
                /\ grammar' = fresh.grammar
                /\ current_cycle' = s2.current_cycle
                /\ recognition_active' = s2.recognition_active
                /\ show_manual_input' = s2.show_manual_input
                /\ log' = log1 \o <<Call("recognize_speech",
                                         recognition_cycles[s2.current_cycle + 1],
                                         s2.current_cycle)>>
                /\ page' = [page EXCEPT !.start = start_key]
                /\ pc' = "listening"
                /\ ans' = IF st_button(kind, key, "confirm", s2.current_cycle)
                            THEN "confirm"
                          ELSE IF st_button(kind, key, "retry", s2.current_cycle)
                            THEN "retry"
                          ELSE "none"
                /\ passes' = IF tracked >= 0 THEN before + 1 ELSE 0
           ELSE \* nothing is drawn below the two buttons
                /\ files' = files
                /\ appends' = appends
                /\ written' = written
                /\ grammar' = fresh.grammar
                /\ current_cycle' = s2.current_cycle
                /\ recognition_active' = s2.recognition_active
                /\ show_manual_input' = s2.show_manual_input
                /\ log' = log1
                /\ page' = [start |-> start_key, lower |-> "none", tier |-> 0,
                            text |-> empty]
                /\ pc' = "waiting"
                /\ ans' = "none"
                /\ passes' = before

----------------------------------------------------------------------------
(* The user's actions.  While recognize_speech runs the page still shows the *)
(* widgets; using one makes Streamlit drop the running execution when it    *)
(* returns and start the next.                                              *)

ClickStart == Script("start", page.start, empty, language_choice)

ClickReset == Script("reset", 0, empty, language_choice)

SelectLanguage(l) == l # language_choice /\ Script("select", 0, empty, l)

ClickConfirm ==
  page.lower = "result" /\ Script("confirm", page.tier, empty, language_choice)

ClickRetry ==
  page.lower = "result" /\ Script("retry", page.tier, empty, language_choice)

\* The text box and Submit.  A session appends at most MaxAppends names.
WouldAppend(text) ==
  /\ show_manual_input
  /\ text # empty
  /\ ~AlreadyPresent(text, files[GrammarFileOf(language_choice)])

ClickSubmit(text) ==
  /\ page.lower = "form"
  /\ WouldAppend(text) => appends < MaxAppends
  /\ Script("submit", 0, text, language_choice)

EditManualText ==
  page.lower = "form" /\ Script("edit", 0, empty, language_choice)

\* recognize_speech returns recognized_text; lines 321-348 follow.
DecodeCompletes(recognized_text) ==
  /\ pc = "listening"
  /\ LET confirmed == ans = "confirm"
         retried == ans = "retry"
         s1 == IF confirmed THEN reset_session ELSE SessionNow
         s2 == IF retried THEN no_try_again(s1, current_cycle) ELSE s1
     IN  /\ current_cycle' = s2.current_cycle
         /\ recognition_active' = s2.recognition_active
         /\ show_manual_input' = s2.show_manual_input
         /\ page' = [start |-> page.start, lower |-> "result",
                     tier |-> current_cycle, text |-> recognized_text]
         /\ log' = log \o <<Call("result", recognized_text, current_cycle)>>
                       \o (IF confirmed
                             THEN <<Call("st.success", last_name(recognized_text), 0),
                                    Call("reset_session", 0, 0)>>
                             ELSE <<>>)
  /\ pc' = "waiting"
  /\ ans' = "none"
  /\ UNCHANGED << language_choice, files, model, names, grammar, input,
                  rejections, passes, appends, written >>

----------------------------------------------------------------------------

Init ==
  /\ current_cycle = 0
  /\ recognition_active = FALSE
  /\ show_manual_input = FALSE
  /\ language_choice = "es-ES"
  /\ \E c \in InitFiles :
       files = [f \in GrammarFiles |->
                  IF f = es_file THEN c ELSE IF f = br_file THEN silva ELSE rossi]
  /\ model = es_model
  /\ names = [f \in GrammarFiles |-> load_grammar(files[f])]
  /\ grammar = names[es_file]
  /\ pc = "waiting"
  /\ ans = "none"
  /\ page = [start |-> 0, lower |-> "none", tier |-> 0, text |-> empty]
  /\ input = [kind |-> "load", key |-> 0, text |-> empty, at |-> "Idle",
              cycle |-> 0, shown |-> empty]
  /\ log = <<>>
  /\ rejections = -1
  /\ passes = 0
  /\ appends = 0
  /\ written = {}
  \* no call of recognize_speech has been made
  /\ q = <<>>
  /\ stream = 0
  /\ rs_pc = "idle"
  /\ data = 0
  /\ cb_pc = "idle"
  /\ indata = 0
  /\ produced = <<>>
  /\ fed = <<>>
  /\ result = "none"
  /\ outcome = "none"
  /\ attempts = 0
  \* no session is inside update_grammar
  /\ sessions = [s \in Sessions |->
                   [pc |-> "idle", new_text |-> empty, language |-> "es-ES",
                    existing_words |-> {}, grammar |-> empty]]

\* A script execution touches neither a capture stream of its own model
\* below nor another session.
Next ==
  \/ ClickStart /\ UNCHANGED << audio_vars, sessions >>
  \/ ClickReset /\ UNCHANGED << audio_vars, sessions >>
  \/ \E l \in Range(Languages) :
       SelectLanguage(l) /\ UNCHANGED << audio_vars, sessions >>
  \/ ClickConfirm /\ UNCHANGED << audio_vars, sessions >>
  \/ ClickRetry /\ UNCHANGED << audio_vars, sessions >>
  \/ \E text \in ManualTexts :
       ClickSubmit(text) /\ UNCHANGED << audio_vars, sessions >>
  \/ EditManualText /\ UNCHANGED << audio_vars, sessions >>
  \/ \E t \in Transcripts :
       DecodeCompletes(t) /\ UNCHANGED << audio_vars, sessions >>

Spec == Init /\ [][Next]_vars

----------------------------------------------------------------------------
(* Failures of the environment.  run() has no try statement: an exception    *)
(* raised in recognize_speech or in update_grammar ends the script execution *)
(* where it is raised, and st.session_state keeps what was assigned before.  *)

\* Line 316: recognize_speech raises (the capture device cannot be opened,
\* or fails while the stream runs).  Nothing below line 316 is executed: the
\* page shows the two buttons and the exception.
DeviceFails ==
  /\ pc = "listening"
  /\ log' = log \o <<Call("PortAudioError", "recognize_speech", current_cycle),
                     Call("uncaught", "run", current_cycle)>>
  /\ page' = [start |-> page.start, lower |-> "none", tier |-> 0, text |-> empty]
  /\ pc' = "waiting"
  /\ ans' = "none"
  /\ UNCHANGED << current_cycle, recognition_active, show_manual_input,
                  language_choice, files, model, names, grammar, input,
                  rejections, passes, appends, written >>

\* The statements of update_grammar that use the file system: the read of
\* lines 184-185, the append of lines 189-190, the reload of lines 193-198.
IOPoints == {"read", "append", "reload"}

\* Lines 290-298 with an OSError raised in update_grammar at the point 'at':
\* the call does not return and reset_session (line 298) is not reached.  A
\* failure in the reload comes after the name was written.
SubmitIOFails(text, at) ==
  LET l == language_choice
      fresh == FreshApp(l)
      upd == update_grammar(text, l, files, fresh.grammar)
      wrote == at = "reload"
  IN  /\ page.lower = "form"
      /\ show_manual_input
      /\ submit_taken(st_button("submit", 0, "submit", 0), text)
      /\ at \in {"append", "reload"} => upd.files # files
      /\ wrote => appends < MaxAppends
      /\ input' = Input("submit", 0, text)
      /\ names' = LoadedNames
      /\ model' = fresh.model
      /\ grammar' = fresh.grammar
      /\ files' = IF wrote THEN upd.files ELSE files
      /\ appends' = IF wrote THEN appends + 1 ELSE appends
      /\ written' = IF wrote THEN written \cup {Written(l, text)} ELSE written
      /\ log' = <<Call("update_grammar", text, l),
                  Call("OSError", at, 0),
                  Call("uncaught", "run", 0)>>
      /\ page' = [start |-> current_cycle, lower |-> "form", tier |-> 0,
                  text |-> empty]
      /\ pc' = "waiting"
      /\ ans' = "none"
      /\ rejections' = -1
      /\ passes' = 0
      /\ UNCHANGED << current_cycle, recognition_active, show_manual_input,
                      language_choice >>

FaultNext ==
  \/ Next
  \/ DeviceFails /\ UNCHANGED << audio_vars, sessions >>
  \/ \E text \in ManualTexts, at \in IOPoints :
       SubmitIOFails(text, at) /\ UNCHANGED << audio_vars, sessions >>

FaultSpec == Init /\ [][FaultNext]_vars

----------------------------------------------------------------------------
(* recognize_speech and the capture callback.  The callback runs on the      *)
(* audio thread of the stream, one call at a time; recognize_speech runs on  *)
(* the script thread.  Frames are numbered in the order the callback is      *)
(* called with them.                                                         *)

\* queue.Queue(maxsize=1)
maxsize == 1

\* Frames the callback is called with during one call of recognize_speech.
MaxFrames == 4

\* Calls of recognize_speech followed.
MaxAttempts == 2

q_put_overwrites(qu, item) == [done |-> TRUE, q |-> <<item>>]

\* q.put(item): blocks while the queue holds maxsize items.
q_put(qu, item) ==
  IF Len(qu) < maxsize
    THEN [done |-> TRUE, q |-> Append(qu, item)]
    ELSE [done |-> FALSE, q |-> qu]

stream_exit_on_return(n, how) == IF how = "return" THEN n - 1 ELSE n

\* Leaving 'with sd.RawInputStream(...)': the stream is stopped and closed,
\* whether the block returns or raises.
stream_exit(n, how) == n - 1

\* recognize_speech is called: line 91.
CallRecognize ==
  /\ rs_pc = "idle"
  /\ attempts < MaxAttempts
  /\ attempts' = attempts + 1
  /\ q' = <<>>
  /\ produced' = <<>>
  /\ fed' = <<>>
  /\ data' = 0
  /\ indata' = 0
  /\ result' = "none"
  /\ rs_pc' = "open"
  /\ UNCHANGED << stream, cb_pc, outcome >>

\* Lines 99-100: the stream is opened and started, or the device refuses.
OpenStream ==
  /\ rs_pc = "open"
  /\ \/ stream' = stream + 1 /\ rs_pc' = "rec" /\ outcome' = outcome
     \/ stream' = stream /\ rs_pc' = "idle" /\ outcome' = "raised"
  /\ UNCHANGED << q, data, cb_pc, indata, produced, fed, result, attempts >>

\* Line 105: vosk.KaldiRecognizer(...) is created, or raises.
CreateRecognizer ==
  /\ rs_pc = "rec"
  /\ \/ rs_pc' = "get" /\ result' = result
     \/ rs_pc' = "exit" /\ result' = "raise"
  /\ UNCHANGED << q, stream, data, cb_pc, indata, produced, fed, outcome, attempts >>

\* Line 93: the audio thread calls callback with the next frame.
Callback ==
  /\ stream > 0
  /\ rs_pc \in {"rec", "get", "feed", "exit"}
  /\ cb_pc = "idle"
  /\ Len(produced) < MaxFrames
  /\ indata' = Len(produced) + 1
  /\ produced' = Append(produced, indata')
  /\ cb_pc' = "put"
  /\ UNCHANGED << q, stream, rs_pc, data, fed, result, outcome, attempts >>

\* Line 96: q.put(bytes(indata)) goes through, and the callback returns.
CallbackPut ==
  /\ cb_pc = "put"
  /\ q_put(q, indata).done
  /\ q' = q_put(q, indata).q
  /\ cb_pc' = "idle"
  /\ UNCHANGED << stream, rs_pc, data, indata, produced, fed, result, outcome, attempts >>

\* Line 110: data = q.get()
Get ==
  /\ rs_pc = "get"
  /\ q # <<>>
  /\ data' = Head(q)
  /\ q' = Tail(q)
  /\ rs_pc' = "feed"
  /\ UNCHANGED << stream, cb_pc, indata, produced, fed, result, outcome, attempts >>

\* Lines 111-114: rec.AcceptWaveform(data) wants more, reports the final
\* result (the function returns), or raises.
AcceptWaveform ==
  /\ rs_pc = "feed"
  /\ fed' = Append(fed, data)
  /\ \/ rs_pc' = "get" /\ result' = result
     \/ rs_pc' = "exit" /\ result' = "return"
     \/ rs_pc' = "exit" /\ result' = "raise"
  /\ UNCHANGED << q, stream, data, cb_pc, indata, produced, outcome, attempts >>

\* The with block is left: stopping the stream waits for a callback that is
\* running to return, then the stream is closed and the call ends.
ExitWith ==
  /\ rs_pc = "exit"
  /\ cb_pc = "idle"
  /\ stream' = stream_exit(stream, result)
  /\ outcome' = IF result = "return" THEN "returned" ELSE "raised"
  /\ rs_pc' = "idle"
  /\ UNCHANGED << q, data, cb_pc, indata, produced, fed, result, attempts >>

AudioNext ==
  \/ CallRecognize /\ UNCHANGED << app_vars, sessions >>
  \/ OpenStream /\ UNCHANGED << app_vars, sessions >>
  \/ CreateRecognizer /\ UNCHANGED << app_vars, sessions >>
  \/ Callback /\ UNCHANGED << app_vars, sessions >>
  \/ CallbackPut /\ UNCHANGED << app_vars, sessions >>
  \/ Get /\ UNCHANGED << app_vars, sessions >>
  \/ AcceptWaveform /\ UNCHANGED << app_vars, sessions >>
  \/ ExitWith /\ UNCHANGED << app_vars, sessions >>

AudioSpec == Init /\ [][AudioNext]_vars

----------------------------------------------------------------------------
(* update_grammar in several browser sessions.  Each session runs the script *)
(* on a thread of its own, with a VoiceRecognitionApp of its own; the name   *)
(* files are shared.  The statements of update_grammar are steps.            *)

\* Names submitted by the sessions.
UpdTexts == {Lopez, ana}

\* Line 294: the session calls update_grammar(new_text) under language l.
UpdCall(s, new_text, l) ==
  /\ sessions[s].pc = "idle"
  /\ sessions' = [sessions EXCEPT ![s].pc = "read",
                                  ![s].new_text = new_text,
                                  ![s].language = l]
  /\ UNCHANGED files

\* Lines 184-185: existing_words = set(file.read().splitlines())
UpdRead(s) ==
  /\ sessions[s].pc = "read"
  /\ sessions' = [sessions EXCEPT
       ![s].existing_words = Range(splitlines(files[GrammarFileOf(sessions[s].language)])),
       ![s].pc = "check"]
  /\ UNCHANGED files

\* Line 188, and line 200 when the name is present.
UpdCheck(s) ==
  /\ sessions[s].pc = "check"
  /\ sessions' = [sessions EXCEPT ![s].pc =
       IF lower(strip(sessions[s].new_text))
            \notin {lower(word) : word \in sessions[s].existing_words}
         THEN "append" ELSE "done"]
  /\ UNCHANGED files

\* Lines 189-190: the name is written at the end of the file.
UpdAppend(s) ==
  /\ sessions[s].pc = "append"
  /\ files' = [files EXCEPT ![GrammarFileOf(sessions[s].language)] =
                 @ \o <<NL>> \o strip(sessions[s].new_text)]
  /\ sessions' = [sessions EXCEPT ![s].pc = "reload"]

\* Lines 193-199: self.grammar is loaded from the file; return True.
UpdReload(s) ==
  /\ sessions[s].pc = "reload"
  /\ sessions' = [sessions EXCEPT
       ![s].grammar = load_grammar(files[GrammarFileOf(sessions[s].language)]),
       ![s].pc = "done"]
  /\ UNCHANGED files

\* What the steps of update_grammar leave alone.
upd_unchanged ==
  << current_cycle, recognition_active, show_manual_input, language_choice,
     model, names, grammar, pc, ans, page, input, log, rejections, passes,
     appends, written, audio_vars >>

UpdNext ==
  \/ \E s \in Sessions, new_text \in UpdTexts, l \in Range(Languages) :
       UpdCall(s, new_text, l) /\ UNCHANGED upd_unchanged
  \/ \E s \in Sessions : UpdRead(s) /\ UNCHANGED upd_unchanged
  \/ \E s \in Sessions : UpdCheck(s) /\ UNCHANGED upd_unchanged
  \/ \E s \in Sessions : UpdAppend(s) /\ UNCHANGED upd_unchanged
  \/ \E s \in Sessions : UpdReload(s) /\ UNCHANGED upd_unchanged

UpdSpec == Init /\ [][UpdNext]_vars

----------------------------------------------------------------------------
(* Properties *)

LastTier == Len(recognition_cycles) - 1

UpdateCalled == Calls("update_grammar") # {}

\* The entries of the grammar the recognizer is handed.
GrammarEntries == json_loads(grammar)

TierInRange == current_cycle \in 0..LastTier

TierStep ==
  current_cycle' # current_cycle =>
    \/ /\ current_cycle' = current_cycle + 1
       /\ current_cycle < LastTier
       /\ pc = "listening"
       /\ input.kind = "retry"
       /\ input.key = current_cycle
    \/ /\ current_cycle' = 0
       /\ (input'.kind = "start" \/ Idle')

\* C1: the tier index stays within 0..len(recognition_cycles)-1; it changes
\* only by +1, on a 'No, try again' given for a result of a tier below the
\* last, or back to 0 where a cycle begins (Start) or ends (Idle): it never
\* skips a tier and never returns to a lower tier within a cycle.
C1_TierSequential == []TierInRange /\ [][TierStep]_vars

\* Two rejections were taken: the controller stands at the last tier.
C1_Witness ==
  /\ input.kind = "retry"
  /\ pc = "waiting"
  /\ recognition_active
  /\ current_cycle = LastTier
  /\ page.tier = LastTier - 1

C2_ThreeRejections ==
  (input.kind = "retry" /\ rejections = Len(recognition_cycles) /\ pc = "waiting")
    => ManualFallback

C2_FallbackIsQuiet ==
  (ManualFallback /\ input'.kind # "start")
    => (pc' # "listening" /\ current_cycle' <= current_cycle)

\* C2: from Idle, Start followed by exactly len(recognition_cycles)
\* 'No, try again' answers, one per presented result and nothing else, leaves
\* the controller in ManualFallback; and in ManualFallback no decode pass and
\* no tier increment happens until a new Start.
C2_ManualAfterThreeRejections == []C2_ThreeRejections /\ [][C2_FallbackIsQuiet]_vars

\* C3: in a cycle driven by Start and rejections only, the passes are one for
\* Start and one per rejection, the k-th under recognition_cycles[k]; and an
\* accept or reject answer does not start a decode pass at the tier of the
\* result it answers.
C3_OnePassPerEntry ==
  /\ (input.kind \in {"start", "retry"} /\ rejections \in 0..LastTier /\ pc = "waiting")
       => (passes = rejections + 1 /\ page.lower = "result" /\ page.tier = rejections)
  /\ (input.kind \in {"confirm", "retry"} /\ pc = "listening")
       => current_cycle # input.key

\* C4: the execution that handles 'Reset Recognition' ends in Idle, presents
\* no transcript, and calls neither recognize_speech nor update_grammar,
\* whatever the controller state the button was pressed in.
C4_ResetYieldsIdle ==
  input.kind = "reset" =>
    /\ Idle
    /\ pc = "waiting"
    /\ ans = "none"
    /\ page.lower = "none"
    /\ Calls("recognize_speech") = {}
    /\ Calls("update_grammar") = {}

\* Reset was pressed while a pass at the second tier was listening.
C4_Witness ==
  /\ input.kind = "reset"
  /\ input.at = "Listening"
  /\ input.cycle = 1

C5_AcceptToIdle ==
  (input.kind = "confirm" /\ input.at = "AwaitingConfirmation" /\ pc = "waiting")
    => Idle

C5_AcceptKeepsVocabulary ==
  input'.kind = "confirm"
    => (files' = files /\ json_loads(grammar') = json_loads(grammar))

\* C5: 'Yes, that's correct' on a presented result moves the controller to
\* Idle, and changes neither a name file nor the grammar in memory.
C5_AcceptIdleVocabularyKept == []C5_AcceptToIdle /\ [][C5_AcceptKeepsVocabulary]_vars

\* C6: the name reported by st.success on accept is the last word of the
\* transcript that was presented when the user answered; and after Start,
\* two rejections and an accept the controller is Idle, the accepted pass ran
\* at tier 2, and a presented "ana garcia" is reported as "garcia".
C6_ReportedIsPresented ==
  /\ \A i \in Calls("st.success") :
       /\ log[i].a = last_name(input.shown)
       /\ input.shown = ana_garcia => log[i].a = garcia
  /\ (input.kind = "confirm" /\ rejections = 2 /\ pc = "waiting")
       => /\ Idle
          /\ Calls("st.success") # {}
          /\ \A i \in Calls("result") : log[i].b = 2

\* C7: in ManualFallback, Submit with a non-empty text calls update_grammar
\* with that text under the selected language, then reset_session, and the
\* controller is Idle.
C7_SubmitUpdatesThenIdle ==
  (input.kind = "submit" /\ input.at = "ManualFallback" /\ input.text # empty) =>
    /\ Len(log) = 2
    /\ log[1].ev = "update_grammar"
    /\ log[1].a = input.text
    /\ log[1].b = language_choice
    /\ log[2].ev = "reset_session"
    /\ Idle
    /\ pc = "waiting"

\* "Lopez" was submitted in ManualFallback and appended to a name file.
C7_Witness ==
  /\ input.kind = "submit"
  /\ input.at = "ManualFallback"
  /\ input.text = Lopez
  /\ appends = 1
  /\ Idle

\* C8: in ManualFallback, a Submit whose text is empty or only whitespace
\* leaves the controller in ManualFallback and changes neither a name file
\* nor the grammar in memory.
C8_BlankSubmitRejected ==
  [][ (input'.kind = "submit" /\ ControllerState = "ManualFallback"
         /\ strip(input'.text) = empty)
        => /\ show_manual_input'
           /\ files' = files
           /\ json_loads(grammar') = json_loads(grammar) ]_vars

\* C9: after update_grammar(C) the grammar holds C up to letter case; a second
\* update_grammar(C) changes neither the file nor the grammar; and when the
\* file already holds an entry equal to C up to letter case and surrounding
\* whitespace, the call changes neither.
C9_UpdateIdempotent ==
  [][ (input'.kind = "submit" /\ UpdateCalled') =>
        LET C == input'.text
            f == GrammarFileOf(language_choice')
            again == update_grammar(C, language_choice', files', grammar')
        IN  /\ lower(strip(C)) \in {lower(w) : w \in Range(json_loads(grammar'))}
            /\ again.files = files'
            /\ again.grammar = grammar'
            /\ again.ret
            /\ (\E w \in Range(splitlines(files[f])) :
                  lower(strip(w)) = lower(strip(C)))
                 => (files' = files /\ json_loads(grammar') = json_loads(grammar)) ]_vars

\* C10: no two entries of the grammar in memory are equal up to letter case.
C10_NoCaseDuplicates ==
  \A i, j \in DOMAIN GrammarEntries :
    i # j => lower(GrammarEntries[i]) # lower(GrammarEntries[j])


\* An entry of a name list as the contract wants it: not empty, no
\* surrounding whitespace.
CleanEntry(w) == w # empty /\ strip(w) = w

CleanLines(content) == \A w \in Range(splitlines(content)) : CleanEntry(w)

\* C11: the grammar in memory holds no empty string and no entry with
\* surrounding whitespace.  Stated for the case the contract itself produces:
\* every line of every name file is a trimmed, non-empty name (the file may
\* end with a line break), the grammar holds only such names, and a name
\* that is not blank is submitted; after the step the grammar still holds
\* only trimmed, non-empty names.
C11_GrammarEntriesClean ==
  [][ ( /\ \A f \in GrammarFiles : CleanLines(files[f])
        /\ \A w \in Range(json_loads(grammar)) : CleanEntry(w)
        /\ input'.kind = "submit"
        /\ strip(input'.text) # empty )
      => \A w \in Range(json_loads(grammar')) : CleanEntry(w) ]_vars


\* C12: once update_grammar has appended a name C under language L, every
\* decode pass run with L selected gets a grammar that holds C, whatever the
\* inputs between (another language selected and L selected again included).
C12_AppendedNameVisible ==
  pc = "listening" =>
    \A a \in written :
      a.language = language_choice => a.name \in Range(json_loads(grammar))


\* The frames on their way from the callback to the decoder, oldest first.
InFlight ==
  (IF rs_pc = "feed" THEN <<data>> ELSE <<>>)
    \o q
    \o (IF cb_pc = "put" THEN <<indata>> ELSE <<>>)

SlotHandoff ==
  /\ Len(q) <= maxsize
  /\ produced = [i \in 1..Len(produced) |-> i]
  /\ fed \o InFlight = produced

FullSlotBlocks ==
  (cb_pc = "put" /\ Len(q) = maxsize) =>
    /\ cb_pc' = "put"
    /\ indata' = indata
    /\ produced' = produced
    /\ q' = q \/ (rs_pc = "get" /\ data' = Head(q) /\ q' = Tail(q))

\* C13: the queue never holds more than one frame; a deposit attempted while
\* the slot is full waits, with its frame, and the frame in the slot leaves
\* it only through q.get(); the frames fed to the decoder, followed by the
\* frames still on their way, are the frames the callback was called with,
\* in that order, each once.
C13_SingleSlotHandoff == []SlotHandoff /\ [][FullSlotBlocks]_vars

\* A deposit waits on the full slot: frame 1 is being fed, frame 2 is in the
\* queue, and the callback stands in q.put with frame 3.
C13_Witness ==
  /\ produced = <<1, 2, 3>>
  /\ rs_pc = "feed"
  /\ data = 1
  /\ q = <<2>>
  /\ cb_pc = "put"
  /\ indata = 3


\* C14: at most one capture stream is open at any time, and outside the with
\* block of recognize_speech (before the stream is opened, and after the call
\* has returned or raised) none is open: every way out of the block releases
\* the stream, and the next call opens its stream only after that.
C14_OneStreamReleased ==
  /\ stream \in 0..1
  /\ rs_pc \in {"idle", "open"} => stream = 0

\* The second call ended by a failure inside the feed loop, after the first
\* call had ended; its stream is released.
C14_Witness ==
  /\ attempts = 2
  /\ rs_pc = "idle"
  /\ result = "raise"
  /\ outcome = "raised"
  /\ fed # <<>>
  /\ stream = 0


\* The decoder has reported the final result and the call has not returned.
Finishing == rs_pc = "exit" /\ result = "return"

\* C17: once the decoder has reported the final result, recognize_speech
\* returns the transcript with the stream closed, whatever the callback does
\* meanwhile: as long as the call has not returned, the callback that is
\* running can return or the stream can be closed (there is no state in
\* which the call waits for ever); and when it has returned no stream is
\* open.
C17_AttemptTerminates ==
  /\ Finishing => (ENABLED CallbackPut \/ ENABLED ExitWith)
  /\ (rs_pc = "idle" /\ outcome = "returned") => stream = 0


\* Entries of log made by a failure of recognize_speech.
DeviceFailures == {i \in DOMAIN log : log[i].ev = "PortAudioError"}

\* C15: a failure of the capture device during the attempt at tier k is
\* handled as a rejection of that attempt: the tier index becomes k+1 for k
\* below the last tier, the controller enters ManualFallback for the last
\* tier, and no exception leaves run().
C15_DeviceFailureEscalates ==
  \A i \in DeviceFailures :
    LET k == log[i].b
    IN  /\ Calls("uncaught") = {}
        /\ k < LastTier => (current_cycle = k + 1 /\ recognition_active)
        /\ k = LastTier => ManualFallback

\* C16: a failure of the read, the append or the reload inside
\* update_grammar is not fatal: the call returns, no exception leaves run(),
\* the grammar in memory is still a list of names, and the submission ends
\* with the controller in Idle.  Stated for a submitted name that is not
\* blank.
C16_IOFailureNotFatal ==
  (Calls("OSError") # {} /\ strip(input.text) # empty) =>
    /\ Calls("uncaught") = {}
    /\ Idle
    /\ json_dumps(json_loads(grammar)) = grammar


\* The lines of a file that update_grammar takes for the name new_text.
Occurrences(content, new_text) ==
  LET lines == splitlines(content)
  IN  {i \in DOMAIN lines : lower(lines[i]) = lower(strip(new_text))}

\* C18: when two sessions have submitted the same name for the same
\* language and both calls of update_grammar have ended, the file holds
\* the name at most once, however their steps interleaved.
C18_ConcurrentAppendOnce ==
  \A s, t \in Sessions :
    ( /\ s # t
      /\ sessions[s].pc = "done"
      /\ sessions[t].pc = "done"
      /\ sessions[s].new_text = sessions[t].new_text
      /\ sessions[s].language = sessions[t].language )
    => Cardinality(Occurrences(files[GrammarFileOf(sessions[s].language)],
                               sessions[s].new_text)) <= 1


\* C19: recognition_active and show_manual_input are never both true: a
\* Start that is taken leaves (true, false), a rejection taken at the last
\* tier leaves (false, true), and reset_session (Reset, accept, manual
\* submission) leaves (false, false).
C19_FlagsExclusive ==
  /\ ~(recognition_active /\ show_manual_input)
  /\ Calls("st.rerun") # {} => (recognition_active /\ ~show_manual_input)
  /\ ( /\ input.kind = "retry"
       /\ input.at = "AwaitingConfirmation"
       /\ input.key = LastTier
       /\ input.cycle = LastTier
       /\ pc = "waiting" )
     => (~recognition_active /\ show_manual_input)
  /\ (log # <<>> /\ log[Len(log)].ev = "reset_session")
     => (~recognition_active /\ ~show_manual_input)

\* Start was pressed in ManualFallback and taken: a pass is running.
C19_Witness ==
  /\ input.kind = "start"
  /\ input.at = "ManualFallback"
  /\ Calls("st.rerun") # {}
  /\ pc = "listening"
  /\ recognition_active


\* The model directory and the name file that belong to each language.
ModelOfLanguage ==
  [l \in Range(Languages) |->
     IF l = "es-ES" THEN es_model ELSE IF l = "pt-BR" THEN br_model ELSE it_model]

FileOfLanguage ==
  [l \in Range(Languages) |->
     IF l = "es-ES" THEN es_file ELSE IF l = "pt-BR" THEN br_file ELSE it_file]

RecognizerMatchesLanguage ==
  pc = "listening" =>
    /\ model = ModelOfLanguage[language_choice]
    /\ grammar = load_grammar(files[FileOfLanguage[language_choice]])

WritesSelectedFileOnly ==
  \A f \in GrammarFiles :
    files'[f] # files[f] =>
      /\ f = FileOfLanguage[language_choice']
      /\ \E i \in DOMAIN log' :
           log'[i].ev = "update_grammar" /\ log'[i].b = language_choice'

\* C20: whenever recognize_speech is entered, self.model is the model and
\* self.grammar the name list of the selected language; and only
\* update_grammar changes a name file, and only the file of the selected
\* language.
C20_LanguageConsistent == []RecognizerMatchesLanguage /\ [][WritesSelectedFileOnly]_vars

\* A pass runs under it-IT, selected after a name was appended to the
\* it-IT file.
C20_Witness ==
  /\ pc = "listening"
  /\ input.kind = "select"
  /\ language_choice = "it-IT"
  /\ model = it_model
  /\ \E a \in written : a.language = "it-IT"
  /\ files[it_file] # rossi

=============================================================================
